---- MODULE Spec2Model ----
(***************************************************************************)
(* Model of talan's DataService (src/services/data.service.ts, found in    *)
(* src/eslint.config.mjs lines 234-513) and of the two callers in          *)
(* extension.ts (lines 45-232): the talan.clearCache command and the chat  *)
(* handler's /cache and /fetch commands.                                   *)
(*                                                                         *)
(* URLs, storage keys, contents and error messages are real strings; the   *)
(* string functions of the code (toLowerCase, includes, endsWith, slice,   *)
(* the two regular expressions) are computed character by character.       *)
(***************************************************************************)
EXTENDS Integers, Sequences, FiniteSets, TLC

(***************************************************************************)
(* JavaScript string primitives used by the service.                       *)
(***************************************************************************)
UpperChars == "ABCDEFGHIJKLMNOPQRSTUVWXYZ"
LowerChars == "abcdefghijklmnopqrstuvwxyz"
DigitChars == "0123456789"

\* s[i] as a one-character string
CharAt(s, i) == SubSeq(s, i, i)

\* the character ch belongs to the alphabet string
InAlphabet(ch, alphabet) == \E k \in 1..Len(alphabet) : CharAt(alphabet, k) = ch

\* one character of String.prototype.toLowerCase
LowerChar(ch) ==
  IF InAlphabet(ch, UpperChars)
    THEN CharAt(LowerChars, CHOOSE k \in 1..Len(UpperChars) : CharAt(UpperChars, k) = ch)
    ELSE ch

RECURSIVE toLowerCase(_)
toLowerCase(s) ==
  IF Len(s) = 0 THEN "" ELSE LowerChar(CharAt(s, 1)) \o toLowerCase(SubSeq(s, 2, Len(s)))

\* pat occurs in s starting at position i
MatchAt(s, pat, i) == i >= 1 /\ i + Len(pat) - 1 <= Len(s) /\ SubSeq(s, i, i + Len(pat) - 1) = pat

\* String.prototype.includes
includes(s, pat) == \E i \in 1..(Len(s) + 1) : MatchAt(s, pat, i)

\* String.prototype.endsWith
endsWith(s, pat) == MatchAt(s, pat, Len(s) - Len(pat) + 1)

\* position of the leftmost occurrence of pat in s at or after position from; 0 when there is none
IndexOfFrom(s, pat, from) ==
  IF \E i \in from..(Len(s) + 1) : MatchAt(s, pat, i)
    THEN CHOOSE i \in from..(Len(s) + 1) :
           MatchAt(s, pat, i) /\ \A j \in from..(i - 1) : ~MatchAt(s, pat, j)
    ELSE 0

IsDigitAt(s, i) == i >= 1 /\ i <= Len(s) /\ InAlphabet(CharAt(s, i), DigitChars)

\* end of the maximal run of digits of s that starts at position i (greedy \d+)
RECURSIVE DigitRunEnd(_, _)
DigitRunEnd(s, i) == IF IsDigitAt(s, i + 1) THEN DigitRunEnd(s, i + 1) ELSE i

(***************************************************************************)
(* Values that JavaScript represents by undefined / null.                  *)
(***************************************************************************)
NoMatch == [matched |-> FALSE, group |-> ""]

\* url.match(/pages\/(\d+)/): leftmost "pages/" followed by a digit, the group is the digit run
MatchPageId(url) ==
  LET starts == {i \in 1..Len(url) : MatchAt(url, "pages/", i) /\ IsDigitAt(url, i + 6)}
  IN  IF starts = {} THEN NoMatch
      ELSE LET i == CHOOSE k \in starts : \A j \in starts : k <= j
           IN  [matched |-> TRUE, group |-> SubSeq(url, i + 6, DigitRunEnd(url, i + 6))]

\* url.match(/https:\/\/(.*?)\.atlassian\.net/): leftmost "https://", then the shortest
\* text up to the next ".atlassian.net"
MatchDomain(url) ==
  LET starts == {i \in 1..Len(url) :
                   MatchAt(url, "https://", i) /\ IndexOfFrom(url, ".atlassian.net", i + 8) # 0}
  IN  IF starts = {} THEN NoMatch
      ELSE LET i == CHOOSE k \in starts : \A j \in starts : k <= j
               e == IndexOfFrom(url, ".atlassian.net", i + 8)
           IN  [matched |-> TRUE, group |-> SubSeq(url, i + 8, e - 1)]

(***************************************************************************)
(* URL classifier and rewriter.                                            *)
(***************************************************************************)
\* a classifier that knows the cloud platform by its page links only
isConfluenceUrlSpaces(url) ==
  \/ includes(toLowerCase(url), "confluence")
  \/ includes(toLowerCase(url), "atlassian.net/wiki/spaces")

isConfluenceUrl(url) ==
  includes(toLowerCase(url), "confluence") \/ includes(toLowerCase(url), "atlassian")

PageIdMessage == "Could not extract page ID from Confluence URL"
DomainMessage == "Could not extract domain from Confluence URL"

Returned(u) == [ok |-> TRUE, url |-> u, message |-> ""]
Thrown(m) == [ok |-> FALSE, url |-> "", message |-> m]

\* a rewriter that does not ask the classifier first
formatConfluenceUrlUnguarded(url) ==
  IF includes(url, "atlassian.net/wiki/spaces")
    THEN LET pageIdMatch == MatchPageId(url)
             domainMatch == MatchDomain(url)
         IN  IF ~pageIdMatch.matched THEN Thrown(PageIdMessage)
             ELSE IF ~domainMatch.matched THEN Thrown(DomainMessage)
             ELSE Returned("https://" \o domainMatch.group
                             \o ".atlassian.net/wiki/rest/api/content/"
                             \o pageIdMatch.group \o "?expand=body.storage")
  ELSE IF ~includes(url, "/rest/api/content")
    THEN LET baseUrl == IF endsWith(url, "/") THEN SubSeq(url, 1, Len(url) - 1) ELSE url
         IN  Returned(baseUrl \o "/rest/api/content")
  ELSE Returned(url)

formatConfluenceUrl(url) ==
  IF ~isConfluenceUrl(url) THEN Returned(url)
  ELSE IF includes(url, "atlassian.net/wiki/spaces")
    THEN LET pageIdMatch == MatchPageId(url)
             domainMatch == MatchDomain(url)
         IN  IF ~pageIdMatch.matched THEN Thrown(PageIdMessage)
             ELSE IF ~domainMatch.matched THEN Thrown(DomainMessage)
             ELSE Returned("https://" \o domainMatch.group
                             \o ".atlassian.net/wiki/rest/api/content/"
                             \o pageIdMatch.group \o "?expand=body.storage")
  ELSE IF ~includes(url, "/rest/api/content")
    THEN LET baseUrl == IF endsWith(url, "/") THEN SubSeq(url, 1, Len(url) - 1) ELSE url
         IN  Returned(baseUrl \o "/rest/api/content")
  ELSE Returned(url)

(***************************************************************************)
(* Bounds of the model.                                                    *)
(***************************************************************************)
NumProcs == 2
MaxCalls == 2
MaxTicks == 2
StartTime == 1

Procs == 1..NumProcs

(***************************************************************************)
(* Program constants (class DataService).                                  *)
(***************************************************************************)
CACHE_KEY == "server-data-cache"
CACHE_TIMESTAMP_KEY == "server-data-timestamp"
CACHE_DURATION == 1000 * 60 * 60

(***************************************************************************)
(* Inputs: the URLs callers pass, the settings a user can have, the        *)
(* responses and failures of the HTTP client.                              *)
(***************************************************************************)
PlainUrl == "https://example.com/data.json"
PageUrl == "https://acme.atlassian.net/wiki/spaces/TEAM/pages/12345/Title"
ApiUrl == "https://acme.atlassian.net/wiki/rest/api/content/12345?expand=body.storage"
NoPageUrl == "https://acme.atlassian.net/wiki/spaces/TEAM/overview"
NoTenantUrl == "http://acme.atlassian.net/wiki/spaces/TEAM/pages/7"

Urls == {PlainUrl, PageUrl, ApiUrl, NoPageUrl, NoTenantUrl}

\* the URLs that concurrent callers contend for
ConcUrls == {PlainUrl, PageUrl}

\* talan.confluence.username / talan.confluence.token; "" is the declared default
\* and stands for every falsy setting (undefined or empty)
Configurations ==
  { [username |-> "", token |-> ""],
    [username |-> "me@acme.com", token |-> ""],
    [username |-> "me@acme.com", token |-> "t0ken"] }

\* response.data of axios.get: isObject is (typeof data === 'object' && data !== null),
\* storageValue is data.body?.storage?.value ("" when undefined or empty),
\* json is JSON.stringify(data, null, 2)
PageData == [isObject |-> TRUE, storageValue |-> "<h1>Title</h1>",
             json |-> "{\n  \"body\": {\n    \"storage\": {\n      \"value\": \"<h1>Title</h1>\"\n    }\n  }\n}"]
JsonData == [isObject |-> TRUE, storageValue |-> "", json |-> "{\n  \"a\": 1\n}"]

Responses == {PageData, JsonData}

\* an AxiosError: message is error.message, responseMessage is
\* error.response?.data?.message ("" when undefined or empty)
AxiosErrors ==
  { [axios |-> TRUE, message |-> "Network Error", responseMessage |-> ""],
    [axios |-> TRUE, message |-> "Request failed with status code 401",
     responseMessage |-> "Unauthorized"] }

\* a plain Error thrown by the service itself
PlainError(m) == [axios |-> FALSE, message |-> m, responseMessage |-> ""]

ClockSteps == {1, CACHE_DURATION}

\* the URLs that can occur as a cache key: the callers' and the rewritten ones
Keys == Urls \cup {formatConfluenceUrl(u).url : u \in {v \in Urls : formatConfluenceUrl(v).ok}}

\* the classifier and the rewriter, computed once for the URLs of the model
Classification == [u \in Keys \cup {""} |-> isConfluenceUrl(u)]
Rewriting == [u \in Keys |-> formatConfluenceUrl(u)]
ContentKeys == [u \in Keys |-> CACHE_KEY \o "-" \o u]
TimestampKeys == [u \in Keys |-> CACHE_TIMESTAMP_KEY \o "-" \o u]

(***************************************************************************)
(* State.                                                                  *)
(***************************************************************************)
VARIABLES
  globalState,    \* context.globalState: storage key -> stored value; a key that is
                  \* not in the domain reads as undefined
  configuration,  \* vscode.workspace.getConfiguration("talan")
  now,            \* Date.now()
  ticks,          \* number of clock advances so far
  calls,          \* number of service calls made so far
  proc,           \* the calls in progress, one record per caller
  lastPut,        \* history: per key, the last completed cacheData not followed by a write to the key
  lastFetch,      \* history: per URL, the last fetchData that wrote the cache, while no clearCache follows
  rewrite       \* the URL handed to formatConfluenceUrl on its own, and what came back

vars == <<globalState, configuration, now, ticks, calls, proc, lastPut, lastFetch, rewrite>>

(***************************************************************************)
(* The host's Memento (context.globalState).                               *)
(***************************************************************************)
MementoHas(key) == key \in DOMAIN globalState

\* globalState.update(key, value)
MementoUpdate(key, value) ==
  [k \in (DOMAIN globalState) \cup {key} |-> IF k = key THEN value ELSE globalState[k]]

\* an update with undefined that leaves the key as it is
MementoDeleteIgnored(key) == globalState

\* globalState.update(key, undefined)
MementoDelete(key) ==
  [k \in (DOMAIN globalState) \ {key} |-> globalState[k]]

ContentKey(url) == ContentKeys[url]
TimestampKey(url) == TimestampKeys[url]

(***************************************************************************)
(* Content extraction.                                                     *)
(***************************************************************************)
\* TurndownService({headingStyle: 'atx', codeBlockStyle: 'fenced'}).turndown(html)
convertHtmlToMarkdown(html) ==
  CASE html = "<h1>Title</h1>" -> "# Title"
    [] html = "" -> ""
    [] OTHER -> html

extractContent(data) ==
  IF Classification[""]
    THEN (IF data.storageValue # "" THEN data.storageValue ELSE data.json)
    ELSE data.json

\* "" stands for the undefined the code returns when there is no body
processConfluenceResponse(data) ==
  IF data.storageValue # "" THEN convertHtmlToMarkdown(data.storageValue) ELSE data.storageValue

(***************************************************************************)
(* Credentials.                                                            *)
(***************************************************************************)
Null == [null |-> TRUE]

getConfluenceCredentials ==
  IF configuration.username = "" \/ configuration.token = ""
    THEN Null
    ELSE [username |-> configuration.username, token |-> configuration.token]

(***************************************************************************)
(* Cache store.                                                            *)
(***************************************************************************)
\* getCachedData with the entry expiring as soon as its age reaches CACHE_DURATION
getCachedDataExpiresAtTtl(url) ==
  IF \/ ~MementoHas(TimestampKey(url))
     \/ globalState[TimestampKey(url)] = 0
     \/ ~MementoHas(ContentKey(url))
    THEN Null
  ELSE IF now - globalState[TimestampKey(url)] >= CACHE_DURATION
    THEN Null
  ELSE globalState[ContentKey(url)]

getCachedData(url) ==
  IF \/ ~MementoHas(TimestampKey(url))
     \/ globalState[TimestampKey(url)] = 0
     \/ ~MementoHas(ContentKey(url))
    THEN Null
  ELSE IF now - globalState[TimestampKey(url)] > CACHE_DURATION
    THEN Null
  ELSE globalState[ContentKey(url)]

\* fetchData's test with the content tested for truthiness instead of its type
HasContentTruthy(cachedData) ==
  cachedData # Null /\ "content" \in DOMAIN cachedData /\ cachedData.content # ""

\* the test fetchData makes on what getCachedData returned; what the store holds is
\* always an object whose content is a string
HasContent(cachedData) == cachedData # Null /\ "content" \in DOMAIN cachedData

\* isDataFromCache with the stored content tested for truthiness
isDataFromCacheTruthy(url, content) ==
  LET cachedData == getCachedData(url)
  IN  IF cachedData = Null \/ "content" \notin DOMAIN cachedData \/ cachedData.content = ""
        THEN FALSE
        ELSE cachedData.content = content

isDataFromCache(url, content) ==
  LET cachedData == getCachedData(url)
  IN  IF cachedData = Null \/ "content" \notin DOMAIN cachedData
        THEN FALSE
        ELSE cachedData.content = content

(***************************************************************************)
(* The catch block of fetchData.                                           *)
(***************************************************************************)
UnexpectedMessage == "An unexpected error occurred"
CredentialsMessage == "Confluence credentials not found. Please configure them in VSCode settings."
ConfluenceFailurePrefix ==
  "Failed to fetch Confluence data. Please ensure:\n"
    \o "1. Your email is correct (username for Confluence Cloud)\n"
    \o "2. You're using an API token (not password)\n"
    \o "3. You have permission to access this page\n"
    \o "4. The page ID is correct\n\n"
    \o "Error details: "
GenericFailurePrefix == "Failed to fetch data: "

\* the catch block without its Confluence branch
CatchGeneric(error, url) ==
  IF error.axios THEN GenericFailurePrefix \o error.message ELSE UnexpectedMessage

\* the message of the Error that fetchData throws for the error caught, url being the
\* value of the local variable at the time
Catch(error, url) ==
  IF error.axios
    THEN IF Classification[url]
           THEN ConfluenceFailurePrefix
                  \o (IF error.responseMessage # "" THEN error.responseMessage ELSE error.message)
           ELSE GenericFailurePrefix \o error.message
    ELSE UnexpectedMessage

(***************************************************************************)
(* Calls.                                                                  *)
(***************************************************************************)
NoOutcome == [kind |-> "none", value |-> "", flag |-> FALSE]
ReturnedValue(v) == [kind |-> "returned", value |-> v, flag |-> FALSE]
ReturnedFlag(b) == [kind |-> "returned", value |-> "", flag |-> b]
ReturnedVoid == [kind |-> "returned", value |-> "", flag |-> FALSE]
Threw(m) == [kind |-> "threw", value |-> m, flag |-> FALSE]

\* a caller that has not called yet
Idle == [pc |-> "idle", op |-> "none", call |-> 0, arg |-> "", url |-> "", content |-> "",
         hit |-> FALSE, classified |-> FALSE, credentialsRead |-> FALSE, gets |-> 0,
         before |-> "", outcome |-> NoOutcome]

\* the record of call number n of operation op with argument u, just entered
Entered(n, op, u) == [Idle EXCEPT !.op = op, !.call = n, !.arg = u, !.url = u]

\* formatConfluenceUrl has not been called on its own
NotFormatted == [stage |-> "none", url |-> "",
                 link |-> [scheme |-> "", host |-> [tenant |-> "", domain |-> ""],
                           path |-> "", page |-> "", id |-> "", tail |-> ""],
                 first |-> Thrown(""), second |-> Thrown("")]

NoHistory == [set |-> FALSE, content |-> "", at |-> 0]

\* every storage write to a key of url ends the history of the last put
ForgetPut(url) == [lastPut EXCEPT ![url] = NoHistory]

Init ==
  /\ globalState = <<>>
  /\ configuration = [username |-> "", token |-> ""]
  /\ now = StartTime
  /\ ticks = 0
  /\ calls = 0
  /\ proc = [p \in Procs |-> Idle]
  /\ lastPut = [u \in Keys |-> NoHistory]
  /\ lastFetch = [u \in Keys |-> NoHistory]
  /\ rewrite = NotFormatted

\* history: what the two keys of url hold (observed when clearCache is called)
EntryState(url) ==
  IF MementoHas(ContentKey(url)) /\ MementoHas(TimestampKey(url))
    THEN (IF now - globalState[TimestampKey(url)] <= CACHE_DURATION THEN "fresh" ELSE "expired")
  ELSE IF MementoHas(ContentKey(url)) \/ MementoHas(TimestampKey(url))
    THEN "partial"
  ELSE "none"

AllIdle == \A p \in Procs : proc[p].pc = "idle"

\* fetchData whose cache hit renews the timestamp of the entry it served
FetchDataRefreshesHit(p, u) ==
  /\ proc[p].pc = "idle"
  /\ calls < MaxCalls
  /\ calls' = calls + 1
  /\ LET e == Entered(calls + 1, "fetchData", u)
         cachedData == getCachedData(u)
         formatted == Rewriting[u]
         credentials == getConfluenceCredentials
     IN  /\ globalState' = IF HasContent(cachedData)
                             THEN MementoUpdate(TimestampKey(u), now)
                             ELSE globalState
         /\ proc' = [proc EXCEPT ![p] =
               IF HasContent(cachedData)
                 THEN [e EXCEPT !.hit = TRUE, !.outcome = ReturnedValue(cachedData.content)]
               ELSE IF ~Classification[u]
                 THEN [e EXCEPT !.classified = TRUE, !.gets = 1, !.pc = "awaitHttp"]
               ELSE IF ~formatted.ok
                 THEN [e EXCEPT !.classified = TRUE,
                                !.outcome = Threw(Catch(PlainError(formatted.message), u))]
               ELSE IF credentials = Null
                 THEN [e EXCEPT !.classified = TRUE, !.credentialsRead = TRUE,
                                !.url = formatted.url,
                                !.outcome = Threw(Catch(PlainError(CredentialsMessage), formatted.url))]
               ELSE [e EXCEPT !.classified = TRUE, !.credentialsRead = TRUE,
                              !.url = formatted.url, !.gets = 1, !.pc = "awaitHttp"]]
  /\ UNCHANGED <<rewrite, configuration, now, ticks, lastPut, lastFetch>>

\* fetchData up to its first await: cache lookup, classification, rewrite, credentials,
\* and the axios.get call
FetchData(p, u) ==
  /\ proc[p].pc = "idle"
  /\ calls < MaxCalls
  /\ calls' = calls + 1
  /\ LET e == Entered(calls + 1, "fetchData", u)
         cachedData == getCachedData(u)
         formatted == Rewriting[u]
         credentials == getConfluenceCredentials
     IN  proc' = [proc EXCEPT ![p] =
           IF HasContent(cachedData)
             THEN [e EXCEPT !.hit = TRUE, !.outcome = ReturnedValue(cachedData.content)]
           ELSE IF ~Classification[u]
             THEN [e EXCEPT !.classified = TRUE, !.gets = 1, !.pc = "awaitHttp"]
           ELSE IF ~formatted.ok
             THEN [e EXCEPT !.classified = TRUE,
                            !.outcome = Threw(Catch(PlainError(formatted.message), u))]
           ELSE IF credentials = Null
             THEN [e EXCEPT !.classified = TRUE, !.credentialsRead = TRUE,
                            !.url = formatted.url,
                            !.outcome = Threw(Catch(PlainError(CredentialsMessage), formatted.url))]
           ELSE [e EXCEPT !.classified = TRUE, !.credentialsRead = TRUE,
                          !.url = formatted.url, !.gets = 1, !.pc = "awaitHttp"]]
  /\ UNCHANGED <<rewrite, globalState, configuration, now, ticks, lastPut, lastFetch>>

\* the content fetchData extracts from response data fetched from url
ExtractedContent(url, data) ==
  IF Classification[url] /\ data.isObject
    THEN (IF processConfluenceResponse(data) # "" THEN processConfluenceResponse(data) ELSE "")
    ELSE extractContent(data)

\* the key under which fetchData caches what it fetched
CacheUrl(p) == proc[p].url

\* axios.get resolves: extract the content, then cacheData up to its first await
HttpSuccess(p, data) ==
  /\ proc[p].pc = "awaitHttp"
  /\ LET extractedContent == ExtractedContent(proc[p].url, data)
     IN  /\ globalState' = MementoUpdate(ContentKey(CacheUrl(p)), [content |-> extractedContent])
         /\ proc' = [proc EXCEPT ![p].content = extractedContent,
                                 ![p].pc = "awaitContentUpdate"]
  /\ lastPut' = ForgetPut(CacheUrl(p))
  /\ UNCHANGED <<rewrite, configuration, now, ticks, calls, lastFetch>>

\* a failed fetch that also drops the entry it could not refresh
HttpFailureInvalidates(p, error) ==
  /\ proc[p].pc = "awaitHttp"
  /\ globalState' = MementoDelete(ContentKey(CacheUrl(p)))
  /\ proc' = [proc EXCEPT ![p].pc = "idle",
                          ![p].outcome = Threw(Catch(error, proc[p].url))]
  /\ UNCHANGED <<rewrite, configuration, now, ticks, calls, lastPut, lastFetch>>

\* a rejected GET that is tried once more before the call gives up
HttpFailureRetries(p, error) ==
  /\ proc[p].pc = "awaitHttp"
  /\ proc' = IF proc[p].gets < 2
               THEN [proc EXCEPT ![p].gets = proc[p].gets + 1]
               ELSE [proc EXCEPT ![p].pc = "idle",
                                 ![p].outcome = Threw(Catch(error, proc[p].url))]
  /\ UNCHANGED <<rewrite, globalState, configuration, now, ticks, calls, lastPut, lastFetch>>

\* axios.get rejects
HttpFailure(p, error) ==
  /\ proc[p].pc = "awaitHttp"
  /\ proc' = [proc EXCEPT ![p].pc = "idle",
                          ![p].outcome = Threw(Catch(error, proc[p].url))]
  /\ UNCHANGED <<rewrite, globalState, configuration, now, ticks, calls, lastPut, lastFetch>>

\* cacheData after its first await: the timestamp write
CacheTimestamp(p) ==
  /\ proc[p].pc = "awaitContentUpdate"
  /\ globalState' = MementoUpdate(TimestampKey(CacheUrl(p)), now)
  /\ proc' = [proc EXCEPT ![p].pc = "awaitTimestampUpdate"]
  /\ lastPut' = [lastPut EXCEPT ![CacheUrl(p)] =
                   [set |-> TRUE, content |-> proc[p].content, at |-> now]]
  /\ lastFetch' = [lastFetch EXCEPT ![proc[p].arg] =
                     [set |-> TRUE, content |-> proc[p].content, at |-> now]]
  /\ UNCHANGED <<rewrite, configuration, now, ticks, calls>>

\* cacheData returns and fetchData returns the extracted content
FetchReturn(p) ==
  /\ proc[p].pc = "awaitTimestampUpdate"
  /\ proc' = [proc EXCEPT ![p].pc = "idle", ![p].outcome = ReturnedValue(proc[p].content)]
  /\ UNCHANGED <<rewrite, globalState, configuration, now, ticks, calls, lastPut, lastFetch>>

\* clearCache up to its first await: the content key is removed
ClearCache(p, u) ==
  /\ proc[p].pc = "idle"
  /\ calls < MaxCalls
  /\ calls' = calls + 1
  /\ globalState' = MementoDelete(ContentKey(u))
  /\ proc' = [proc EXCEPT ![p] = [Entered(calls + 1, "clearCache", u) EXCEPT
                                    !.pc = "awaitClearContent", !.before = EntryState(u)]]
  /\ lastPut' = ForgetPut(u)
  /\ lastFetch' = [k \in Keys |-> NoHistory]
  /\ UNCHANGED <<rewrite, configuration, now, ticks>>

\* clearCache renewing the timestamp instead of removing it
ClearTimestampTouches(p) ==
  /\ proc[p].pc = "awaitClearContent"
  /\ globalState' = MementoUpdate(TimestampKey(proc[p].url), now)
  /\ proc' = [proc EXCEPT ![p].pc = "awaitClearTimestamp"]
  /\ UNCHANGED <<rewrite, configuration, now, ticks, calls, lastPut, lastFetch>>

\* clearCache resetting the timestamp to 0 instead of removing it
ClearTimestampZero(p) ==
  /\ proc[p].pc = "awaitClearContent"
  /\ globalState' = MementoUpdate(TimestampKey(proc[p].url), 0)
  /\ proc' = [proc EXCEPT ![p].pc = "awaitClearTimestamp"]
  /\ lastPut' = ForgetPut(proc[p].url)
  /\ UNCHANGED <<rewrite, configuration, now, ticks, calls, lastFetch>>

\* clearCache after its first await: the timestamp key is removed
ClearTimestamp(p) ==
  /\ proc[p].pc = "awaitClearContent"
  /\ globalState' = MementoDelete(TimestampKey(proc[p].url))
  /\ proc' = [proc EXCEPT ![p].pc = "awaitClearTimestamp"]
  /\ lastPut' = ForgetPut(proc[p].url)
  /\ UNCHANGED <<rewrite, configuration, now, ticks, calls, lastFetch>>

ClearReturn(p) ==
  /\ proc[p].pc = "awaitClearTimestamp"
  /\ proc' = [proc EXCEPT ![p].pc = "idle", ![p].outcome = ReturnedVoid]
  /\ UNCHANGED <<rewrite, globalState, configuration, now, ticks, calls, lastPut, lastFetch>>

\* isDataFromCache that also evicts the entry it found expired
IsDataFromCacheSweeps(p, u, c) ==
  /\ proc[p].pc = "idle"
  /\ calls < MaxCalls
  /\ calls' = calls + 1
  /\ proc' = [proc EXCEPT ![p] =
                [Entered(calls + 1, "isDataFromCache", u) EXCEPT
                   !.content = c, !.outcome = ReturnedFlag(isDataFromCache(u, c))]]
  /\ globalState' = IF EntryState(u) = "expired"
                      THEN [k \in (DOMAIN globalState) \ {ContentKey(u), TimestampKey(u)} |->
                              globalState[k]]
                      ELSE globalState
  /\ UNCHANGED <<rewrite, configuration, now, ticks, lastPut, lastFetch>>

\* isDataFromCache is synchronous
IsDataFromCache(p, u, c) ==
  /\ proc[p].pc = "idle"
  /\ calls < MaxCalls
  /\ calls' = calls + 1
  /\ proc' = [proc EXCEPT ![p] =
                [Entered(calls + 1, "isDataFromCache", u) EXCEPT
                   !.content = c, !.outcome = ReturnedFlag(isDataFromCache(u, c))]]
  /\ UNCHANGED <<rewrite, globalState, configuration, now, ticks, lastPut, lastFetch>>

\* the wall clock advances
Tick(d) ==
  /\ ticks < MaxTicks
  /\ ticks' = ticks + 1
  /\ now' = now + d
  /\ UNCHANGED <<rewrite, globalState, configuration, calls, proc, lastPut, lastFetch>>

\* the user edits the settings
UpdateConfiguration(c) ==
  /\ configuration # c
  /\ configuration' = c
  /\ UNCHANGED <<rewrite, globalState, now, ticks, calls, proc, lastPut, lastFetch>>

\* the contents callers compare with
Contents == {ExtractedContent(u, d) : u \in Keys, d \in Responses}

\* steps that continue a call in progress, and the environment
Continue ==
  \/ \E p \in Procs, data \in Responses : HttpSuccess(p, data)
  \/ \E p \in Procs, error \in AxiosErrors : HttpFailure(p, error)
  \/ \E p \in Procs : CacheTimestamp(p)
  \/ \E p \in Procs : FetchReturn(p)
  \/ \E p \in Procs : ClearTimestamp(p)
  \/ \E p \in Procs : ClearReturn(p)
  \/ \E d \in ClockSteps : Tick(d)
  \/ \E c \in Configurations : UpdateConfiguration(c)

\* the calls of one caller that awaits each call before it makes the next one
AwaitedFetchData(u) == AllIdle /\ FetchData(1, u)
AwaitedClearCache(u) == AllIdle /\ ClearCache(1, u)
AwaitedIsDataFromCache(u, c) == AllIdle /\ IsDataFromCache(1, u, c)

Next ==
  \/ \E u \in Urls : AwaitedFetchData(u)
  \/ \E u \in Urls : AwaitedClearCache(u)
  \/ \E u \in Urls, c \in Contents : AwaitedIsDataFromCache(u, c)
  \/ Continue

Spec == Init /\ [][Next]_vars

\* callers that call while other calls are in progress: the chat handler and the
\* talan.clearCache command run independently of each other
\* each caller makes one call, the callers entering in the order of their numbers
\* (they are interchangeable)
IsNextCaller(p) == proc[p].call = 0 /\ \A q \in 1..(p - 1) : proc[q].call # 0

ConcurrentFetchData(p, u) == IsNextCaller(p) /\ FetchData(p, u)
ConcurrentClearCache(p, u) == IsNextCaller(p) /\ ClearCache(p, u)

ConcNext ==
  \/ \E p \in Procs, u \in ConcUrls : ConcurrentFetchData(p, u)
  \/ \E p \in Procs, u \in ConcUrls : ConcurrentClearCache(p, u)
  \/ Continue

ConcSpec == Init /\ [][ConcNext]_vars

(***************************************************************************)
(* The rewriter on its own: formatConfluenceUrl applied to a link, and     *)
(* applied once more to what it returned.  A link is put together from a   *)
(* scheme, a host (tenant label and domain), a path, a page segment and a  *)
(* tail, so that what the link means is known apart from its text.         *)
(***************************************************************************)
Schemes == {"https://", "http://"}
Hosts ==
  { [tenant |-> "acme", domain |-> "atlassian.net"],
    [tenant |-> "acme", domain |-> "Atlassian.NET"],
    [tenant |-> "", domain |-> "atlassian.net"],
    [tenant |-> "confluence", domain |-> "corp.com"],
    [tenant |-> "docs", domain |-> "example.com"] }
Paths ==
  {"", "/wiki/spaces/TEAM", "/wiki/spaces/foo.atlassian.net", "/display/DOC",
   "/wiki/rest/api/content"}
\* a page segment and the page id it names ("" when it names none)
PageSegments ==
  { [page |-> "", id |-> ""],
    [page |-> "/pages/12345", id |-> "12345"],
    [page |-> "/pages/edit", id |-> ""],
    [page |-> "/12345", id |-> ""] }
Tails == {"", "/", "/Title", "?expand=body.storage"}

Links ==
  { [scheme |-> s, host |-> h, path |-> a, page |-> g.page, id |-> g.id, tail |-> t] :
      s \in Schemes, h \in Hosts, a \in Paths, g \in PageSegments, t \in Tails }

HostName(h) == IF h.tenant = "" THEN h.domain ELSE h.tenant \o "." \o h.domain
LinkUrl(l) == l.scheme \o HostName(l.host) \o l.path \o l.page \o l.tail

RewriteInit ==
  /\ globalState = <<>>
  /\ configuration = [username |-> "", token |-> ""]
  /\ now = StartTime
  /\ ticks = 0
  /\ calls = 0
  /\ proc = [p \in Procs |-> Idle]
  /\ lastPut = [u \in Keys |-> NoHistory]
  /\ lastFetch = [u \in Keys |-> NoHistory]
  /\ \E l \in Links :
       rewrite = [NotFormatted EXCEPT !.stage = "input", !.link = l, !.url = LinkUrl(l)]

\* formatConfluenceUrl(url)
FormatUrl ==
  /\ rewrite.stage = "input"
  /\ rewrite' = [rewrite EXCEPT !.stage = "formatted",
                                    !.first = formatConfluenceUrl(rewrite.url)]
  /\ UNCHANGED <<globalState, configuration, now, ticks, calls, proc, lastPut, lastFetch>>

\* formatConfluenceUrl(formatConfluenceUrl(url))
FormatAgain ==
  /\ rewrite.stage = "formatted"
  /\ rewrite.first.ok
  /\ rewrite' = [rewrite EXCEPT !.stage = "again",
                                    !.second = formatConfluenceUrl(rewrite.first.url)]
  /\ UNCHANGED <<globalState, configuration, now, ticks, calls, proc, lastPut, lastFetch>>

RewriteNext == FormatUrl \/ FormatAgain

RewriteSpec == RewriteInit /\ [][RewriteNext]_vars

(***************************************************************************)
(* Vocabulary of the properties.                                           *)
(***************************************************************************)
\* a non-expired entry exists under key url
FreshEntry(url) ==
  /\ MementoHas(ContentKey(url))
  /\ MementoHas(TimestampKey(url))
  /\ now - globalState[TimestampKey(url)] <= CACHE_DURATION

\* the content stored under key url
StoredContent(url) == globalState[ContentKey(url)].content

\* caller p makes a call in this step
Calls(p, op) == proc'[p].call # proc[p].call /\ proc'[p].op = op

\* the step leaves every storage key alone, except possibly the two keys of url
OnlyKeysOfChange(url) ==
  \A k \in (DOMAIN globalState) \cup (DOMAIN globalState') :
    k \notin {ContentKey(url), TimestampKey(url)} =>
      /\ k \in DOMAIN globalState
      /\ k \in DOMAIN globalState'
      /\ globalState'[k] = globalState[k]

StartsWith(s, prefix) == MatchAt(s, prefix, 1)

(***************************************************************************)
(* C1.  A fetchData(u) that misses the cache and whose GET succeeds writes *)
(* the extracted content under the caller-supplied key u, and changes the  *)
(* entry of no other key: both storage writes of the call (the content     *)
(* after the response, the timestamp after it) go to the keys of u.        *)
(***************************************************************************)
C1_WritesUnderOriginalKey ==
  [][\A p \in Procs :
       /\ (proc[p].pc = "awaitHttp" /\ proc'[p].pc = "awaitContentUpdate") =>
            /\ OnlyKeysOfChange(proc[p].arg)
            /\ MementoHas(ContentKey(proc[p].arg))'
            /\ StoredContent(proc[p].arg)' = proc'[p].content
       /\ (proc[p].pc = "awaitContentUpdate" /\ proc'[p].pc = "awaitTimestampUpdate") =>
            /\ OnlyKeysOfChange(proc[p].arg)
            /\ MementoHas(TimestampKey(proc[p].arg))'
            /\ globalState'[TimestampKey(proc[p].arg)] = now]_vars

(***************************************************************************)
(* C2.  After a fetchData(u) that fetched and cached the content, a second *)
(* fetchData(u) made before the TTL has elapsed since that write, with no  *)
(* clearCache in between, returns the same content and issues no HTTP      *)
(* call.                                                                   *)
(***************************************************************************)
C2_SecondFetchServedFromCache ==
  [][\A p \in Procs, u \in Urls :
       ( /\ lastFetch[u].set
         /\ now - lastFetch[u].at < CACHE_DURATION
         /\ Calls(p, "fetchData")
         /\ proc'[p].arg = u ) =>
       ( /\ proc'[p].pc = "idle"
         /\ proc'[p].outcome = ReturnedValue(lastFetch[u].content)
         /\ proc'[p].gets = 0 )]_vars

(***************************************************************************)
(* C3.  Whenever a non-expired entry exists under key u, fetchData(u)      *)
(* returns exactly the stored content at once: it does not classify or     *)
(* rewrite u, does not read the credentials, issues no HTTP call and       *)
(* leaves the store alone; so a hit on a special URL succeeds also when    *)
(* the credentials are missing.                                            *)
(***************************************************************************)
C3_HitReturnsStoredContent ==
  [][\A p \in Procs, u \in Urls :
       (FreshEntry(u) /\ Calls(p, "fetchData") /\ proc'[p].arg = u) =>
       ( /\ proc'[p].pc = "idle"
         /\ proc'[p].outcome = ReturnedValue(StoredContent(u))
         /\ proc'[p].url = u
         /\ ~proc'[p].classified
         /\ ~proc'[p].credentialsRead
         /\ proc'[p].gets = 0
         /\ globalState' = globalState )]_vars

\* a hit on a special URL while the credentials are missing
C3_Witness ==
  \E p \in Procs :
    /\ proc[p].op = "fetchData"
    /\ proc[p].hit
    /\ proc[p].outcome.kind = "returned"
    /\ Classification[proc[p].arg]
    /\ getConfluenceCredentials = Null
(***************************************************************************)
(* C4 as claimed.  After put(url, content) at time t, with no later write  *)
(* to the keys of url, get(url) returns the entry with that content while  *)
(* less than CACHE_DURATION has passed since t, and absent from            *)
(* CACHE_DURATION on (exactly one hour included).                          *)
(***************************************************************************)
C4_AbsentFromOneHourOn ==
  \A u \in Keys :
    lastPut[u].set =>
      IF now - lastPut[u].at < CACHE_DURATION
        THEN getCachedData(u) = [content |-> lastPut[u].content]
        ELSE getCachedData(u) = Null

(***************************************************************************)
(* C4 as amended.  After put(url, content) at time t, with no later write  *)
(* to the keys of url, get(url) returns the entry with that content while  *)
(* at most CACHE_DURATION has passed since t (exactly one hour included),  *)
(* and absent once more than CACHE_DURATION has passed.                    *)
(***************************************************************************)
C4_AbsentAfterOneHour ==
  \A u \in Keys :
    lastPut[u].set =>
      IF now - lastPut[u].at <= CACHE_DURATION
        THEN getCachedData(u) = [content |-> lastPut[u].content]
        ELSE getCachedData(u) = Null

\* an entry read exactly one hour after it was put
C4_Witness ==
  \E u \in Keys :
    /\ lastPut[u].set
    /\ now - lastPut[u].at = CACHE_DURATION
    /\ getCachedData(u) = [content |-> lastPut[u].content]

(***************************************************************************)
(* C5.  Whatever the two keys of url held when clearCache(url) was called  *)
(* (nothing, a fresh entry, an expired entry, one key only) and whatever   *)
(* was written to them while it ran, once clearCache(url) has completed    *)
(* its work, that is in the state reached by its last write, get(url) is   *)
(* absent and isDataFromCache(url, c) is false for every c.                *)
(***************************************************************************)
C5_AbsentAfterClear ==
  [][\A p \in Procs :
       (proc[p].pc = "awaitClearContent" /\ proc'[p].pc = "awaitClearTimestamp") =>
         /\ getCachedData(proc[p].arg)' = Null
         /\ \A c \in Contents : ~isDataFromCache(proc[p].arg, c)']_vars

\* clearCache has made its last write on a key that held a non-expired entry when it was called
C5_Witness ==
  \E p \in Procs :
    /\ proc[p].op = "clearCache"
    /\ proc[p].pc = "awaitClearTimestamp"
    /\ proc[p].before = "fresh"

(***************************************************************************)
(* C6.  clearCache is total and idempotent for a caller that awaits it:    *)
(* it always returns normally; a write of clearCache(url) to a key that    *)
(* holds nothing leaves the store as it is; and when clearCache(url) has   *)
(* made its last write neither key of url holds anything, so that a second *)
(* clearCache(url) leaves the store as the first one left it.              *)
(***************************************************************************)
C6_ClearIdempotent ==
  [][\A p \in Procs :
       /\ (Calls(p, "clearCache") /\ ~MementoHas(ContentKey(proc'[p].arg))) =>
            globalState' = globalState
       /\ (proc[p].pc = "awaitClearContent" /\ proc'[p].pc = "awaitClearTimestamp") =>
            /\ ~MementoHas(TimestampKey(proc[p].arg)) => globalState' = globalState
            /\ ~MementoHas(ContentKey(proc[p].arg))'
            /\ ~MementoHas(TimestampKey(proc[p].arg))'
       /\ (proc[p].pc = "awaitClearTimestamp" /\ proc'[p] # proc[p]) =>
            /\ proc'[p].pc = "idle"
            /\ proc'[p].outcome = ReturnedVoid
            /\ globalState' = globalState]_vars

\* clearCache has returned for a key that held nothing when it was called
C6_Witness ==
  \E p \in Procs :
    /\ proc[p].op = "clearCache"
    /\ proc[p].pc = "idle"
    /\ proc[p].before = "none"
    /\ proc[p].outcome = ReturnedVoid
    /\ DOMAIN globalState # {}

(***************************************************************************)
(* C7.  isDataFromCache(url, c) is true exactly when a non-expired entry   *)
(* exists for url and its stored content equals c; so it is true right     *)
(* after put(url, c), the empty content included, and false for every c    *)
(* once an awaited clearCache(url) has made its last write.                *)
(***************************************************************************)
C7_IsDataFromCacheIffFreshEqual ==
  /\ \A u \in Keys, c \in Contents :
       isDataFromCache(u, c) <=> (FreshEntry(u) /\ StoredContent(u) = c)
  /\ \A u \in Keys :
       (lastPut[u].set /\ now = lastPut[u].at) => isDataFromCache(u, lastPut[u].content)
  /\ \A p \in Procs, c \in Contents :
       (proc[p].op = "clearCache" /\ proc[p].pc \in {"awaitClearTimestamp", "idle"}) =>
         ~isDataFromCache(proc[p].arg, c)

\* isDataFromCache has answered true for the empty content
C7_Witness ==
  \E p \in Procs :
    /\ proc[p].op = "isDataFromCache"
    /\ proc[p].content = ""
    /\ proc[p].outcome = ReturnedFlag(TRUE)
    /\ lastPut[proc[p].arg].set
    /\ lastPut[proc[p].arg].content = ""

(***************************************************************************)
(* C8.  fetchData on a special URL that misses the cache while the         *)
(* username or the token is missing fails with the configuration           *)
(* diagnostic, which is neither the generic unexpected-error message nor a *)
(* network-failure message; it issues no HTTP call and leaves the cache    *)
(* unchanged.  (The URLs whose rewrite fails are the case of C9.)          *)
(***************************************************************************)
C8_MissingCredentialsDiagnostic ==
  [][\A p \in Procs, u \in Urls :
       ( /\ Calls(p, "fetchData")
         /\ proc'[p].arg = u
         /\ ~FreshEntry(u)
         /\ isConfluenceUrl(u)
         /\ formatConfluenceUrl(u).ok
         /\ getConfluenceCredentials = Null ) =>
       ( /\ proc'[p].pc = "idle"
         /\ proc'[p].outcome = Threw(CredentialsMessage)
         /\ proc'[p].outcome.value # UnexpectedMessage
         /\ proc'[p].gets = 0
         /\ globalState' = globalState )]_vars

(***************************************************************************)
(* C9.  fetchData on a special cloud-hosted URL whose rewrite fails (no    *)
(* pages/<digits> segment, or no tenant to extract) fails with the URL     *)
(* format error of the rewriter, which is not the generic unexpected-error *)
(* message; it fails before the credentials are read and before any HTTP   *)
(* call, and the cache is unchanged.                                       *)
(***************************************************************************)
C9_UrlFormatErrorPropagated ==
  [][\A p \in Procs, u \in Urls :
       ( /\ Calls(p, "fetchData")
         /\ proc'[p].arg = u
         /\ ~FreshEntry(u)
         /\ isConfluenceUrl(u)
         /\ ~formatConfluenceUrl(u).ok ) =>
       ( /\ proc'[p].pc = "idle"
         /\ proc'[p].outcome = Threw(formatConfluenceUrl(u).message)
         /\ proc'[p].outcome.value # UnexpectedMessage
         /\ ~proc'[p].credentialsRead
         /\ proc'[p].gets = 0
         /\ globalState' = globalState )]_vars

(***************************************************************************)
(* C10.  When the GET of a fetchData call fails, the call throws: the      *)
(* composite remediation diagnostic if the caller's URL is classified      *)
(* special, the generic failure message if it is not; it never returns a   *)
(* content.                                                                *)
(***************************************************************************)
C10_FailureDiagnosticByClassification ==
  [][\A p \in Procs :
       (proc[p].pc = "awaitHttp" /\ proc'[p].pc # "awaitContentUpdate" /\ proc'[p] # proc[p]) =>
         /\ proc'[p].pc = "idle"
         /\ proc'[p].outcome.kind = "threw"
         /\ StartsWith(proc'[p].outcome.value, ConfluenceFailurePrefix)
              <=> Classification[proc[p].arg]
         /\ StartsWith(proc'[p].outcome.value, GenericFailurePrefix)
              <=> ~Classification[proc[p].arg]
         /\ globalState' = globalState]_vars

\* a failed GET for a page link, answered with the composite diagnostic
C10_Witness ==
  \E p \in Procs :
    /\ proc[p].op = "fetchData"
    /\ proc[p].arg = PageUrl
    /\ proc[p].gets = 1
    /\ proc[p].outcome.kind = "threw"
    /\ StartsWith(proc[p].outcome.value, ConfluenceFailurePrefix)
(***************************************************************************)
(* C11.  A fetchData call that fails (URL format error, missing            *)
(* credentials, failed GET) leaves the content key and the timestamp key   *)
(* of every URL as they were before the call, a prior expired entry of     *)
(* the same URL included: for a caller that awaits the call, no step from  *)
(* the call to its failure changes the store.                              *)
(***************************************************************************)
C11_FailedFetchLeavesStore ==
  [][\A p \in Procs :
       ( /\ Calls(p, "fetchData") \/ (proc[p].op = "fetchData" /\ proc[p].pc = "awaitHttp")
         /\ proc'[p].pc \in {"awaitHttp", "idle"}
         /\ proc'[p].outcome.kind # "returned" ) =>
       globalState' = globalState]_vars

\* a GET that failed while an expired entry of the same URL was in the store
C11_Witness ==
  \E p \in Procs :
    /\ proc[p].op = "fetchData"
    /\ proc[p].pc = "idle"
    /\ proc[p].gets = 1
    /\ proc[p].outcome.kind = "threw"
    /\ EntryState(proc[p].arg) = "expired"
(***************************************************************************)
(* C12.  Two concurrent fetchData calls for the same URL can both miss     *)
(* and both issue a GET; once both have completed, the stored content and  *)
(* the stored timestamp of the URL both come from the same call, the one   *)
(* whose write happened last, whatever the order of their storage writes.  *)
(***************************************************************************)
C12_EntryFromLastWriter ==
  \A p, q \in Procs :
    ( /\ p # q
      /\ \A c \in {p, q} :
           /\ proc[c].op = "fetchData"
           /\ proc[c].pc = "idle"
           /\ proc[c].gets = 1
           /\ proc[c].outcome.kind = "returned"
      /\ proc[p].arg = proc[q].arg
      /\ \A o \in Procs \ {p, q} : proc[o].url # proc[p].url ) =>
    LET url == CacheUrl(p)
    IN  /\ MementoHas(ContentKey(url))
        /\ MementoHas(TimestampKey(url))
        \* lastPut[url] is the call whose timestamp write came last
        /\ lastPut[url].set
        /\ globalState[TimestampKey(url)] = lastPut[url].at
        /\ StoredContent(url) = lastPut[url].content
(***************************************************************************)
(* C13.  For every URL that is not classified special (its lowercased      *)
(* form contains neither "confluence" nor "atlassian"), formatConfluenceUrl *)
(* returns the URL unchanged.                                              *)
(***************************************************************************)
C13_NonSpecialUnchanged ==
  ( /\ rewrite.stage \in {"formatted", "again"}
    /\ ~includes(toLowerCase(rewrite.url), "confluence")
    /\ ~includes(toLowerCase(rewrite.url), "atlassian") ) =>
  rewrite.first = Returned(rewrite.url)

\* a link that is not special, with a wiki-looking path, came back as it was
C13_Witness ==
  /\ rewrite.stage = "formatted"
  /\ rewrite.link.host.domain = "example.com"
  /\ rewrite.link.path = "/wiki/spaces/TEAM"
  /\ rewrite.link.id = "12345"
  /\ rewrite.first = Returned(rewrite.url)
(***************************************************************************)
(* C14.  formatConfluenceUrl is idempotent: whenever it returns for a URL, *)
(* it also returns for the URL it returned, and returns that URL           *)
(* unchanged, for cloud-hosted and for self-hosted links.                  *)
(***************************************************************************)
C14_RewriteIdempotent ==
  rewrite.stage = "again" => (rewrite.second.ok /\ rewrite.second = rewrite.first)
(***************************************************************************)
(* C15.  For every URL classified special that is a cloud-hosted spaces    *)
(* link (host {tenant}.atlassian.net, path under /wiki/spaces) with a      *)
(* pages/{id} segment, formatConfluenceUrl returns                         *)
(* https://{tenant}.atlassian.net/wiki/rest/api/content/{id}?expand=body.storage *)
(* with that id and that tenant; a cloud-hosted link with no pages/{id}    *)
(* segment fails with the URL format error instead of returning a URL.     *)
(***************************************************************************)
C15_CloudLinkToEndpoint ==
  ( /\ rewrite.stage \in {"formatted", "again"}
    /\ isConfluenceUrl(rewrite.url)
    /\ rewrite.link.host.tenant # ""
    /\ toLowerCase(rewrite.link.host.domain) = "atlassian.net"
    /\ StartsWith(rewrite.link.path, "/wiki/spaces/") ) =>
  IF rewrite.link.id # ""
    THEN rewrite.first =
           Returned("https://" \o rewrite.link.host.tenant
                      \o ".atlassian.net/wiki/rest/api/content/"
                      \o rewrite.link.id \o "?expand=body.storage")
    ELSE ~rewrite.first.ok /\ rewrite.first.message = PageIdMessage
(***************************************************************************)
(* C19.  Rewriting preserves classification: whenever formatConfluenceUrl  *)
(* returns for a URL, isConfluenceUrl of the returned URL equals           *)
(* isConfluenceUrl of the URL, so the extraction branch and the diagnostic *)
(* branch chosen from the rewritten URL are those of the original URL.     *)
(***************************************************************************)
C19_RewritePreservesClassification ==
  (rewrite.stage \in {"formatted", "again"} /\ rewrite.first.ok) =>
  isConfluenceUrl(rewrite.first.url) = isConfluenceUrl(rewrite.url)

\* a cloud page link was rewritten to its content endpoint, which is still special
C19_Witness ==
  /\ rewrite.stage = "formatted"
  /\ rewrite.first.ok
  /\ rewrite.first.url # rewrite.url
  /\ rewrite.link.id # ""
  /\ includes(rewrite.first.url, "atlassian.net/wiki/rest/api/content/")
  /\ isConfluenceUrl(rewrite.first.url)
(***************************************************************************)
(* C16.  getCachedData and isDataFromCache only read: the step in which    *)
(* isDataFromCache runs, and the step in which fetchData looks the URL up, *)
(* leave the store as it is; an expired entry stays in the store, content  *)
(* and timestamp as they were, until a write of cacheData or of clearCache *)
(* for that key changes it.                                                *)
(***************************************************************************)
C16_ReadsLeaveStore ==
  [][ /\ \A p \in Procs :
           (Calls(p, "isDataFromCache") \/ Calls(p, "fetchData")) =>
           globalState' = globalState
      /\ \A u \in Keys :
           ( /\ EntryState(u) = "expired"
             /\ \E k \in {ContentKey(u), TimestampKey(u)} :
                  ~MementoHas(k)' \/ globalState'[k] # globalState[k] ) =>
           \E p \in Procs :
             \/ /\ proc[p].op = "fetchData"
                /\ proc[p].pc \in {"awaitHttp", "awaitContentUpdate"}
                /\ proc'[p].pc \in {"awaitContentUpdate", "awaitTimestampUpdate"}
                /\ CacheUrl(p) = u
             \/ Calls(p, "clearCache") /\ proc'[p].arg = u
             \/ /\ proc[p].op = "clearCache"
                /\ proc[p].pc = "awaitClearContent"
                /\ proc'[p].pc = "awaitClearTimestamp"
                /\ proc[p].arg = u ]_vars

\* isDataFromCache answered false for the very content of an entry that has
\* expired and is still in the store
C16_Witness ==
  \E p \in Procs :
    /\ proc[p].op = "isDataFromCache"
    /\ proc[p].outcome = ReturnedFlag(FALSE)
    /\ EntryState(proc[p].arg) = "expired"
    /\ StoredContent(proc[p].arg) = proc[p].content
(***************************************************************************)
(* C17.  In every state in which no cacheData call and no clearCache call  *)
(* is between its two storage writes, the content key and the timestamp    *)
(* key of each URL are both set or both unset, whatever the interleaving   *)
(* of concurrent fetchData and clearCache calls on that URL.               *)
(***************************************************************************)
C17_KeysSetTogether ==
  (\A p \in Procs : proc[p].pc \notin {"awaitContentUpdate", "awaitClearContent"}) =>
  \A u \in Keys : MementoHas(ContentKey(u)) <=> MementoHas(TimestampKey(u))
(***************************************************************************)
(* C18.  Every fetchData invocation issues at most one HTTP GET: none on a *)
(* cache hit, on a rewrite failure and on missing credentials, exactly one *)
(* otherwise; after the call has started the number of its GETs no longer  *)
(* changes, so a failed GET is not followed by another GET of the same     *)
(* invocation.                                                             *)
(***************************************************************************)
C18_AtMostOneGet ==
  [][\A p \in Procs :
       /\ \A u \in Urls :
            (Calls(p, "fetchData") /\ proc'[p].arg = u) =>
            LET hit == FreshEntry(u)
                rewriteFails == Classification[u] /\ ~Rewriting[u].ok
                noCredentials == /\ Classification[u]
                                 /\ configuration.username = "" \/ configuration.token = ""
            IN  proc'[p].gets = IF hit \/ rewriteFails \/ noCredentials THEN 0 ELSE 1
       /\ (proc[p].op = "fetchData" /\ proc'[p].call = proc[p].call) =>
            /\ proc'[p].gets = proc[p].gets
            /\ proc[p].gets <= 1
            /\ (proc[p].pc = "awaitHttp" /\ proc'[p].outcome.kind = "threw") =>
                 proc'[p].pc = "idle" /\ proc'[p].gets = 1]_vars

\* a call whose only GET failed has ended, with nothing cached for its URL
C18_Witness ==
  \E p \in Procs :
    /\ proc[p].op = "fetchData"
    /\ proc[p].pc = "idle"
    /\ proc[p].outcome.kind = "threw"
    /\ proc[p].gets = 1
    /\ EntryState(proc[p].url) = "none"
(***************************************************************************)
(* C20.  A cache hit does not renew the entry: a fetchData served from the *)
(* cache leaves the content and the timestamp of the URL unchanged, so     *)
(* the entry is stale one CACHE_DURATION after it was written, however     *)
(* many hits it served: a call that finds it older than that is no hit.    *)
(***************************************************************************)
C20_HitDoesNotRefresh ==
  [][\A u \in Urls :
       /\ \A p \in Procs :
            (Calls(p, "fetchData") /\ proc'[p].arg = u) =>
            /\ proc'[p].hit =>
                 /\ MementoHas(ContentKey(u))' /\ MementoHas(TimestampKey(u))'
                 /\ globalState'[ContentKey(u)] = globalState[ContentKey(u)]
                 /\ globalState'[TimestampKey(u)] = globalState[TimestampKey(u)]
                 /\ globalState' = globalState
            /\ (lastPut[u].set /\ now - lastPut[u].at > CACHE_DURATION) => ~proc'[p].hit
       /\ ( /\ lastPut[u].set
            /\ now - lastPut[u].at > CACHE_DURATION
            /\ \E p \in Procs : proc[p].op = "fetchData" /\ proc[p].arg = u /\ proc[p].hit ) =>
          getCachedData(u) = Null]_vars

\* an entry served a hit some time after it was written and kept the
\* timestamp of its write
C20_Witness ==
  \E p \in Procs :
    /\ proc[p].op = "fetchData"
    /\ proc[p].hit
    /\ lastPut[proc[p].arg].set
    /\ lastPut[proc[p].arg].at < now
    /\ globalState[TimestampKey(proc[p].arg)] = lastPut[proc[p].arg].at

(***************************************************************************)
(* C21.  Once clearCache(u) has completed, get(u) stays absent until a     *)
(* fetchData(u) invoked after that completion writes the entry: a          *)
(* fetchData(u) that was called before clearCache(u), its GET in flight    *)
(* while clearCache(u) ran, does not bring the cleared entry back.  Stated *)
(* for the case that every fetchData on the key of u was called before     *)
(* the clearCache.                                                         *)
(***************************************************************************)
C21_InFlightFetchDoesNotRepopulate ==
  \A p \in Procs :
    ( /\ proc[p].op = "clearCache"
      /\ proc[p].pc \in {"awaitClearTimestamp", "idle"}
      /\ \A q \in Procs \ {p} :
           /\ proc[q].op # "clearCache"
           /\ (proc[q].op = "fetchData" /\ CacheUrl(q) = proc[p].arg) =>
                proc[q].call < proc[p].call ) =>
    getCachedData(proc[p].arg) = Null

(***************************************************************************)
(* C21, amended.  Once clearCache(u) has completed, get(u) stays absent    *)
(* until a cacheData write of a fetchData call whose cache key is u makes  *)
(* it present; no other step does.  That call may have been made before    *)
(* the clearCache: a GET in flight is not cancelled.                       *)
(***************************************************************************)
C21_AbsentUntilFetchWrites ==
  [][\A p \in Procs :
       ( /\ proc'[p].op = "clearCache"
         /\ proc'[p].pc \in {"awaitClearTimestamp", "idle"}
         \* getCachedData reads the store and the clock only
         /\ globalState' # globalState \/ now' # now ) =>
       \A u \in {proc'[p].arg} :
         (getCachedData(u) = Null /\ getCachedData(u)' # Null) =>
         \E q \in Procs :
           /\ proc[q].op = "fetchData"
           /\ CacheUrl(q) = u
           /\ \/ proc[q].pc = "awaitHttp" /\ proc'[q].pc = "awaitContentUpdate"
              \/ proc[q].pc = "awaitContentUpdate" /\ proc'[q].pc = "awaitTimestampUpdate"]_vars

\* clearCache(u) has completed and the entry of u is back, written by a
\* fetchData that was called before the clearCache
C21_Witness ==
  \E p, q \in Procs :
    /\ proc[p].op = "clearCache"
    /\ proc[p].pc = "idle"
    /\ proc[p].outcome = ReturnedVoid
    /\ proc[q].op = "fetchData"
    /\ proc[q].call < proc[p].call
    /\ CacheUrl(q) = proc[p].arg
    /\ proc[q].pc \in {"awaitTimestampUpdate", "idle"}
    /\ getCachedData(proc[p].arg) # Null
    /\ getCachedData(proc[p].arg).content = proc[q].content
====
